---- MODULE Spec2Model ----
(***************************************************************************)
(* The two QA helper scripts of .github/qa:                                *)
(*   fix_clippy_sarif.py  (PathRewriter)    rewrites the artifact URIs of  *)
(*                                          a SARIF file in place;         *)
(*   sonar_to_sarif.py    (ReportConverter) converts a sonarQube generic   *)
(*                                          issue list into a SARIF file.  *)
(* A path is a sequence of one-character strings.  A JSON object is a      *)
(* function from its keys; a key that is absent from the JSON text is      *)
(* absent from the DOMAIN, so that d["k"] raising KeyError is              *)
(* "k" \notin DOMAIN d.  A file on disk is the JSON value it holds.        *)
(***************************************************************************)
EXTENDS Integers, Sequences, FiniteSets, TLC

(***************************************************************************)
(* Bounds of the model.                                                    *)
(***************************************************************************)
MaxLen == 4        \* longest generated input path (characters)
MaxBaseLen == 2    \* longest generated --base directory (characters)
MaxNodes == 5      \* runs + results + locations of a generated SARIF file
MaxIssues == 2     \* longest generated issue list

Alphabet == {"/", ".", "a"}

RECURSIVE SeqsUpTo(_, _)
SeqsUpTo(S, n) ==
    IF n = 0 THEN {<<>>}
    ELSE LET shorter == SeqsUpTo(S, n - 1)
         IN  shorter \cup {Append(s, c) : s \in {t \in shorter : Len(t) = n - 1}, c \in S}

(***************************************************************************)
(* posixpath, as the two scripts use it.                                   *)
(***************************************************************************)
sep == "/"

StartsWith(s, pre) ==
    /\ Len(s) >= Len(pre)
    /\ SubSeq(s, 1, Len(pre)) = pre

EndsWith(s, c) == Len(s) > 0 /\ s[Len(s)] = c

\* str.split("/"): the components between the separators, empty ones kept.
RECURSIVE Split(_)
Split(path) ==
    IF \A i \in 1..Len(path) : path[i] # sep THEN <<path>>
    ELSE LET i == CHOOSE k \in 1..Len(path) :
                      /\ path[k] = sep
                      /\ \A j \in 1..(k - 1) : path[j] # sep
         IN  <<SubSeq(path, 1, i - 1)>> \o Split(SubSeq(path, i + 1, Len(path)))

\* "/".join(comps)
RECURSIVE JoinComps(_)
JoinComps(comps) ==
    IF Len(comps) = 0 THEN <<>>
    ELSE IF Len(comps) = 1 THEN comps[1]
    ELSE comps[1] \o <<sep>> \o JoinComps(Tail(comps))

dot == <<".">>
dotdot == <<".", ".">>

\* initial_slashes of normpath: 0, 1, or 2 for exactly two leading slashes.
InitialSlashes(path) ==
    IF ~StartsWith(path, <<sep>>) THEN 0
    ELSE IF StartsWith(path, <<sep, sep>>) /\ ~StartsWith(path, <<sep, sep, sep>>) THEN 2
    ELSE 1

\* The loop of normpath over the components, new_comps being the accumulator.
RECURSIVE NormComps(_, _, _)
NormComps(comps, new_comps, initial_slashes) ==
    IF Len(comps) = 0 THEN new_comps
    ELSE LET comp == Head(comps)
             rest == Tail(comps)
         IN  IF comp = <<>> \/ comp = dot
                THEN NormComps(rest, new_comps, initial_slashes)
             ELSE IF \/ comp # dotdot
                     \/ (initial_slashes = 0 /\ Len(new_comps) = 0)
                     \/ (Len(new_comps) > 0 /\ new_comps[Len(new_comps)] = dotdot)
                THEN NormComps(rest, Append(new_comps, comp), initial_slashes)
             ELSE IF Len(new_comps) > 0
                THEN NormComps(rest, SubSeq(new_comps, 1, Len(new_comps) - 1), initial_slashes)
             ELSE NormComps(rest, new_comps, initial_slashes)

\* os.path.normpath(path)
normpath(path) ==
    IF path = <<>> THEN dot
    ELSE LET initial_slashes == InitialSlashes(path)
             comps == NormComps(Split(path), <<>>, initial_slashes)
             joined == [i \in 1..initial_slashes |-> sep] \o JoinComps(comps)
         IN  IF joined = <<>> THEN dot ELSE joined

\* os.path.join(a, b)
join(a, b) ==
    IF StartsWith(b, <<sep>>) THEN b
    ELSE IF a = <<>> \/ EndsWith(a, sep) THEN a \o b
    ELSE a \o <<sep>> \o b

(***************************************************************************)
(* Files and JSON values.                                                  *)
(***************************************************************************)
Absent == [kind |-> "absent"]                    \* no such file
Garbage == [kind |-> "text"]                     \* a file that is not JSON
Json(v) == [kind |-> "json", value |-> v]        \* a file holding the JSON value v

None == <<>>                                     \* an option that was not given
Some(v) == <<v>>
IsGiven(opt) == opt # None

Has(obj, key) == key \in DOMAIN obj

(***************************************************************************)
(* SARIF input of fix_clippy_sarif.py.  Missing keys model malformed       *)
(* documents; every object carries a key the script never touches.         *)
(***************************************************************************)
UriPool == {<<".", "/", "a">>, <<".", ".", "/", "b">>}

WfLocation(u) ==
    [id |-> 7,
     physicalLocation |->
        [artifactLocation |-> [uri |-> u, uriBaseId |-> "SRCROOT"],
         region |-> [startLine |-> 3]]]
LocationNoPhysical == [id |-> 7]
LocationNoArtifact == [id |-> 7, physicalLocation |-> [region |-> [startLine |-> 3]]]
LocationNoUri ==
    [id |-> 7,
     physicalLocation |->
        [artifactLocation |-> [uriBaseId |-> "SRCROOT"], region |-> [startLine |-> 3]]]

LocationPool(uris) ==
    {WfLocation(u) : u \in uris} \cup {LocationNoPhysical, LocationNoArtifact, LocationNoUri}

WfResult(locs) == [ruleId |-> "clippy::lint", level |-> "warning", locations |-> locs]
ResultNoLocations == [ruleId |-> "clippy::lint", level |-> "warning"]
WfRun(results_) == [tool |-> [driver |-> [name |-> "clippy"]], results |-> results_]
RunNoResults == [tool |-> [driver |-> [name |-> "clippy"]]]
WfDoc(runs) == [version |-> "2.1.0", runs |-> runs]
DocNoRuns == [version |-> "2.1.0"]

\* Number of runs, results and locations of a value.
RECURSIVE SumLen(_)
SumLen(s) == IF Len(s) = 0 THEN 0 ELSE Head(s) + SumLen(Tail(s))
ResultNodes(result) == 1 + (IF Has(result, "locations") THEN Len(result.locations) ELSE 0)
RunNodes(run_) ==
    1 + (IF Has(run_, "results")
            THEN SumLen([k \in 1..Len(run_.results) |-> ResultNodes(run_.results[k])])
            ELSE 0)

ResultsUpTo(uris, n) ==
    {ResultNoLocations} \cup {WfResult(ll) : ll \in SeqsUpTo(LocationPool(uris), n - 1)}

RECURSIVE ResultLists(_, _)
ResultLists(uris, n) ==
    IF n <= 0 THEN {<<>>}
    ELSE {<<>>} \cup
         UNION {{<<r>> \o rest : rest \in ResultLists(uris, n - ResultNodes(r))} :
                    r \in ResultsUpTo(uris, n)}

RunsUpTo(uris, n) == {RunNoResults} \cup {WfRun(rl) : rl \in ResultLists(uris, n - 1)}

RECURSIVE RunLists(_, _)
RunLists(uris, n) ==
    IF n <= 0 THEN {<<>>}
    ELSE {<<>>} \cup
         UNION {{<<r>> \o rest : rest \in RunLists(uris, n - RunNodes(r))} :
                    r \in RunsUpTo(uris, n)}

\* The documents with at most n runs, results and locations in all.
Docs(uris, n) == {DocNoRuns} \cup {WfDoc(rl) : rl \in RunLists(uris, n)}

\* A document with the single location uri u.
SingleLocationDoc(u) == WfDoc(<<WfRun(<<WfResult(<<WfLocation(u)>>)>>)>>)

(***************************************************************************)
(* sonarQube generic issue input of sonar_to_sarif.py.                     *)
(***************************************************************************)
Str(s) == <<"str", s>>          \* a JSON string
Null == <<"null">>              \* JSON null

Severities == {Str("MINOR"), Str("MAJOR"), Str("CRITICAL"), Str("INFO"), Str(""), Null}

MkIssue(ruleId, severity, filePath, message, startLine) ==
    [ruleId |-> ruleId,
     severity |-> severity,
     primaryLocation |->
        [filePath |-> filePath,
         message |-> message,
         textRange |-> [startLine |-> startLine]]]

ExamplePath == <<".", "/", "s", "r", "c", "/", "f", "o", "o", ".", "d">>
ExampleBase == <<"/", "r", "e", "p", "o">>
ExampleIssue == MkIssue("dscanner.bugs.logic", Str("MAJOR"), ExamplePath, "bad thing", 42)

IssueNoRuleId == [k \in DOMAIN ExampleIssue \ {"ruleId"} |-> ExampleIssue[k]]
IssueNoSeverity == [k \in DOMAIN ExampleIssue \ {"severity"} |-> ExampleIssue[k]]
IssueNoLocation == [k \in DOMAIN ExampleIssue \ {"primaryLocation"} |-> ExampleIssue[k]]
IssueNoStartLine ==
    [ExampleIssue EXCEPT !.primaryLocation =
        [filePath |-> ExamplePath, message |-> "bad thing", textRange |-> [endLine |-> 43]]]

IssuePool ==
    {ExampleIssue}
    \cup {MkIssue("dscanner.style.x", s, <<"a", "/", ".", ".", "/", "b">>, "other thing", 7) :
            s \in Severities}
    \cup {IssueNoRuleId, IssueNoSeverity, IssueNoLocation, IssueNoStartLine}

WfIssues(issues) == [issues |-> issues, tool |-> "dscanner"]
ContentNoIssues == [tool |-> "dscanner"]

(***************************************************************************)
(* The external commands sonar_to_sarif.py runs: the captured stdout of    *)
(* `dub run dscanner -- --version` and of the two `git rev-parse` calls,   *)
(* or the command missing from PATH.                                       *)
(***************************************************************************)
NotInstalled == [installed |-> FALSE]
Stdout(chars) == [installed |-> TRUE, stdout |-> chars]

DubOutputs ==
    {NotInstalled,
     Stdout(<<"v", "0", ".", "9", "\n">>),
     Stdout(<<"B", "u", "i", "l", "d", "\n", "v", "1", "\n", "\n">>)}

GitOutputs ==
    {[sha |-> <<"c", "0", "f", "e", "\n">>, branch |-> <<"m", "a", "i", "n", "\n">>]}

Whitespace == {" ", "\n", "\t", "\r"}

\* bytes.strip()
RECURSIVE lstrip(_)
lstrip(s) == IF Len(s) > 0 /\ Head(s) \in Whitespace THEN lstrip(Tail(s)) ELSE s
RECURSIVE rstrip(_)
rstrip(s) ==
    IF Len(s) > 0 /\ s[Len(s)] \in Whitespace THEN rstrip(SubSeq(s, 1, Len(s) - 1)) ELSE s
strip(s) == rstrip(lstrip(s))

\* str.split("\n")[-1]
RECURSIVE LastLine(_)
LastLine(s) ==
    IF \A i \in 1..Len(s) : s[i] # "\n" THEN s
    ELSE LastLine(Tail(s))

(***************************************************************************)
(* State.                                                                  *)
(***************************************************************************)
VARIABLES
    tool,       \* which script runs: "fix_clippy_sarif" or "sonar_to_sarif"
    args,       \* the argparse.Namespace given to main
    env,        \* what the external commands print
    disk,       \* file name -> content
    disk0,      \* the disk when the script started (history)
    pc,         \* position in main
    data,       \* fix_clippy_sarif: `data`; sonar_to_sarif: `content`, then `data`
    cur,        \* the loop indices
    results,    \* sonar_to_sarif: `results`
    counter,    \* sonar_to_sarif: `counter`
    run,        \* sonar_to_sarif: `run`
    status,     \* exit status of the process, "running" until it ends
    stderr      \* what the process wrote to stderr: a message or the exception

vars == <<tool, args, env, disk, disk0, pc, data, cur, results, counter, run, status, stderr>>

NoData == [unset |-> TRUE]
NoCur == [run |-> 0, result |-> 0, location |-> 0, issue |-> 0]
NoEnv == [dub |-> NotInstalled, git |-> [sha |-> <<>>, branch |-> <<>>], argv |-> ""]

Paths == SeqsUpTo(Alphabet, MaxLen) \cup {ExamplePath, <<".", ".", "/", "a", "/", "b", ".", "d">>}
Bases == SeqsUpTo(Alphabet, MaxBaseLen) \cup {ExampleBase, <<"/", "x", "/", "y">>}

\* An uncaught exception: the traceback goes to stderr and the process exits 1.
Raise(exc) ==
    /\ pc' = "done"
    /\ status' = "1"
    /\ stderr' = exc

\* `return code` from main, handed to exit().
Return(code) ==
    /\ pc' = "done"
    /\ status' = code

(***************************************************************************)
(* fix_clippy_sarif.py                                                     *)
(***************************************************************************)
RewriterInputs ==
    \* documents of every shape, well-formed and malformed
    {[file |-> f, base |-> b] :
        f \in {Absent, Garbage} \cup {Json(d) : d \in Docs(UriPool, MaxNodes)},
        b \in {ExampleBase, <<"x">>}}
    \cup
    \* every path under every base
    {[file |-> Json(SingleLocationDoc(u)), base |-> b] : u \in Paths, b \in Bases}

RewriterInit ==
    \E inp \in RewriterInputs :
        /\ tool = "fix_clippy_sarif"
        /\ args = [file |-> "clippy.sarif", base |-> inp.base]
        /\ env = NoEnv
        /\ disk = [f \in {"clippy.sarif"} |-> inp.file]
        /\ disk0 = disk
        /\ pc = "load"
        /\ data = NoData
        /\ cur = NoCur
        /\ results = <<>>
        /\ counter = 0
        /\ run = NoData
        /\ status = "running"
        /\ stderr = ""

HasUri(location) ==
    /\ Has(location, "physicalLocation")
    /\ Has(location.physicalLocation, "artifactLocation")
    /\ Has(location.physicalLocation.artifactLocation, "uri")

\* Variants of RewrittenUri: the joined path normalized again; the path joined without
\* being normalized; the path resolved as if the base were its root.
RewrittenUriNormalized(base, p) == normpath(join(base, normpath(p)))
RewrittenUriRaw(base, p) == join(base, p)
RewrittenUriInside(base, p) == join(base, Tail(normpath(<<sep>> \o p)))

\* p = os.path.join(args.base, os.path.normpath(p))
RewrittenUri(base, p) == join(base, normpath(p))

\* Variant of SetUri: the location rebuilt with the URI alone.
SetUriFresh(location, p) == [physicalLocation |-> [artifactLocation |-> [uri |-> p]]]

\* location["physicalLocation"]["artifactLocation"]["uri"] = p
SetUri(location, p) ==
    [location EXCEPT !.physicalLocation.artifactLocation.uri = p]

\* with open(args.file) as f: data = json.load(f); the iterable data["runs"]
RewriterLoad ==
    /\ tool = "fix_clippy_sarif"
    /\ pc = "load"
    /\ LET f == disk[args.file]
       IN  IF f.kind = "absent"
              THEN Raise("FileNotFoundError") /\ UNCHANGED <<data, cur>>
           ELSE IF f.kind # "json"
              THEN Raise("JSONDecodeError") /\ UNCHANGED <<data, cur>>
           ELSE IF ~Has(f.value, "runs")
              THEN Raise("KeyError") /\ data' = f.value /\ UNCHANGED cur
           ELSE /\ data' = f.value
                /\ cur' = [cur EXCEPT !.run = 1]
                /\ pc' = "for_run"
                /\ UNCHANGED <<status, stderr>>
    /\ UNCHANGED <<tool, args, env, disk, disk0, results, counter, run>>

\* for run in data["runs"]: the next run, and the iterable run["results"]
RewriterForRun ==
    /\ tool = "fix_clippy_sarif"
    /\ pc = "for_run"
    /\ IF cur.run > Len(data.runs)
          THEN pc' = "write" /\ UNCHANGED <<cur, status, stderr>>
       ELSE IF ~Has(data.runs[cur.run], "results")
          THEN Raise("KeyError") /\ UNCHANGED cur
       ELSE /\ cur' = [cur EXCEPT !.result = 1]
            /\ pc' = "for_result"
            /\ UNCHANGED <<status, stderr>>
    /\ UNCHANGED <<tool, args, env, disk, disk0, data, results, counter, run>>

\* for result in run["results"]: the next result, and the iterable result["locations"]
RewriterForResult ==
    /\ tool = "fix_clippy_sarif"
    /\ pc = "for_result"
    /\ LET rs == data.runs[cur.run].results
       IN  IF cur.result > Len(rs)
              THEN /\ cur' = [cur EXCEPT !.run = @ + 1]
                   /\ pc' = "for_run"
                   /\ UNCHANGED <<status, stderr>>
           ELSE IF ~Has(rs[cur.result], "locations")
              THEN Raise("KeyError") /\ UNCHANGED cur
           ELSE /\ cur' = [cur EXCEPT !.location = 1]
                /\ pc' = "for_location"
                /\ UNCHANGED <<status, stderr>>
    /\ UNCHANGED <<tool, args, env, disk, disk0, data, results, counter, run>>

\* Variant of RewriterForLocation: the file is saved after each rewritten location.
RewriterForLocationEager ==
    /\ tool = "fix_clippy_sarif"
    /\ pc = "for_location"
    /\ LET locs == data.runs[cur.run].results[cur.result].locations
       IN  IF cur.location > Len(locs)
              THEN /\ cur' = [cur EXCEPT !.result = @ + 1]
                   /\ pc' = "for_result"
                   /\ UNCHANGED <<data, disk, status, stderr>>
           ELSE IF ~HasUri(locs[cur.location])
              THEN Raise("KeyError") /\ UNCHANGED <<data, disk, cur>>
           ELSE LET location == locs[cur.location]
                    p == location.physicalLocation.artifactLocation.uri
                IN  /\ data' = [data EXCEPT
                            !.runs[cur.run].results[cur.result].locations[cur.location] =
                                SetUri(location, join(args.base, normpath(p)))]
                    /\ disk' = [disk EXCEPT ![args.file] = Json(data')]
                    /\ cur' = [cur EXCEPT !.location = @ + 1]
                    /\ UNCHANGED <<pc, status, stderr>>
    /\ UNCHANGED <<tool, args, env, disk0, results, counter, run>>

\* for location in result["locations"]: the next location and the loop body
RewriterForLocation ==
    /\ tool = "fix_clippy_sarif"
    /\ pc = "for_location"
    /\ LET locs == data.runs[cur.run].results[cur.result].locations
       IN  IF cur.location > Len(locs)
              THEN /\ cur' = [cur EXCEPT !.result = @ + 1]
                   /\ pc' = "for_result"
                   /\ UNCHANGED <<data, status, stderr>>
           ELSE IF ~HasUri(locs[cur.location])
              THEN Raise("KeyError") /\ UNCHANGED <<data, cur>>
           ELSE LET location == locs[cur.location]
                    p == location.physicalLocation.artifactLocation.uri
                IN  /\ data' = [data EXCEPT
                            !.runs[cur.run].results[cur.result].locations[cur.location] =
                                SetUri(location, RewrittenUri(args.base, p))]
                    /\ cur' = [cur EXCEPT !.location = @ + 1]
                    /\ UNCHANGED <<pc, status, stderr>>
    /\ UNCHANGED <<tool, args, env, disk, disk0, results, counter, run>>

\* with open(args.file, "w") as f: json.dump(data, f, indent=2); return 0
RewriterWrite ==
    /\ tool = "fix_clippy_sarif"
    /\ pc = "write"
    /\ disk' = [disk EXCEPT ![args.file] = Json(data)]
    /\ Return("0")
    /\ UNCHANGED <<tool, args, env, disk0, data, cur, results, counter, run, stderr>>

(***************************************************************************)
(* sonar_to_sarif.py                                                       *)
(***************************************************************************)
SCHEMA_URL ==
    "https://raw.githubusercontent.com/oasis-tcs/sarif-spec/master/Schemata/sarif-schema-2.1.0.json"

OldOutput == Json([version |-> "2.1.0", runs |-> <<>>])
DefaultEnv ==
    [dub |-> Stdout(<<"v", "0", ".", "9", "\n">>),
     git |-> CHOOSE g \in GitOutputs : TRUE,
     argv |-> "sonar_to_sarif.py"]

ConverterInputs ==
    \* every combination of options, files and command outputs
    {[in_file |-> i, out_file |-> o, force |-> f, base |-> b, git |-> g,
      env |-> [dub |-> d, git |-> go, argv |-> "sonar_to_sarif.py"]] :
        i \in {Absent, Garbage, Json(ContentNoIssues), Json(WfIssues(<<>>)),
               Json(WfIssues(<<ExampleIssue>>))},
        o \in {Absent, Garbage, OldOutput},
        f \in BOOLEAN,
        b \in {None, Some(ExampleBase)},
        g \in {None, Some(<<"h", "t", "t", "p", "s", ":", "/", "/", "r", "o", "r", "m">>)},
        d \in DubOutputs,
        go \in GitOutputs}
    \cup
    \* every issue list
    {[in_file |-> Json(WfIssues(is)), out_file |-> o, force |-> TRUE, base |-> b,
      git |-> None, env |-> DefaultEnv] :
        is \in SeqsUpTo(IssuePool, MaxIssues),
        o \in {Absent, OldOutput},
        b \in {None, Some(ExampleBase)}}
    \cup
    \* every path under every base
    {[in_file |-> Json(WfIssues(<<MkIssue("dscanner.style.x", Str("MINOR"), u, "m", 1)>>)),
      out_file |-> Absent, force |-> FALSE, base |-> b, git |-> None, env |-> DefaultEnv] :
        u \in Paths,
        b \in {None} \cup {Some(bb) : bb \in Bases}}

ConverterInit ==
    \E inp \in ConverterInputs :
        /\ tool = "sonar_to_sarif"
        /\ args = [in_file |-> "issues.json", out_file |-> "out.sarif",
                   force |-> inp.force, base |-> inp.base, git |-> inp.git]
        /\ env = inp.env
        /\ disk = [f \in {"issues.json", "out.sarif"} |->
                      IF f = "issues.json" THEN inp.in_file ELSE inp.out_file]
        /\ disk0 = disk
        /\ pc = "check"
        /\ data = NoData
        /\ cur = NoCur
        /\ results = <<>>
        /\ counter = 0
        /\ run = NoData
        /\ status = "running"
        /\ stderr = ""

\* os.path.exists(path)
exists(d, path) == d[path].kind # "absent"

\* Variant of Refuses: the flag inverted.
RefusesWithForce(out_exists, force) == out_exists /\ force

\* os.path.exists(args.out_file) and not args.force
Refuses(out_exists, force) == out_exists /\ ~force

\* Variant of to_level: an unknown severity is an error.
to_level_strict(severity) ==
    IF severity = Str("MINOR") THEN "note"
    ELSE IF severity = Str("MAJOR") THEN "warning"
    ELSE "error"

\* {"MINOR": "note", "MAJOR": "warning"}.get(severity, "warning")
to_level(severity) ==
    IF severity = Str("MINOR") THEN "note"
    ELSE IF severity = Str("MAJOR") THEN "warning"
    ELSE "warning"

\* `if args.base:` is false for an option not given and for the empty string
Truthy(opt) == IsGiven(opt) /\ opt[1] # <<>>

\* Variants of IssueUri: the path not normalized; the base never joined.
IssueUriRaw(base, filePath) == IF IsGiven(base) /\ base[1] # <<>> THEN join(base[1], filePath) ELSE filePath
IssueUriNoBase(base, filePath) == normpath(filePath)

\* p = os.path.normpath(filePath); if args.base: p = os.path.join(args.base, p)
IssueUri(base, filePath) ==
    LET p == normpath(filePath)
    IN  IF Truthy(base) THEN join(base[1], p) ELSE p

\* the keys of an issue the loop body reads
HasIssueKeys(issue) ==
    /\ Has(issue, "primaryLocation")
    /\ Has(issue.primaryLocation, "filePath")
    /\ Has(issue, "ruleId")
    /\ Has(issue, "severity")
    /\ Has(issue.primaryLocation, "message")
    /\ Has(issue.primaryLocation, "textRange")
    /\ Has(issue.primaryLocation.textRange, "startLine")

\* Variant of NextCounter: the increment forgotten.
NextCounterStuck(c) == c

\* counter += 1
NextCounter(c) == c + 1

\* the dictionary appended to `results`
ToResult(issue, base, id) ==
    [ruleId |-> issue.ruleId,
     level |-> to_level(issue.severity),
     message |-> [text |-> issue.primaryLocation.message],
     locations |->
        <<[id |-> id,
           physicalLocation |->
              [artifactLocation |-> [uri |-> IssueUri(base, issue.primaryLocation.filePath)],
               region |-> [startLine |-> issue.primaryLocation.textRange.startLine]]]>>]

\* the existence check of the output file
ConverterCheck ==
    /\ tool = "sonar_to_sarif"
    /\ pc = "check"
    /\ IF Refuses(exists(disk, args.out_file), args.force)
          THEN Return("1") /\ stderr' = "Output file already exists. Use '-f' to overwrite it."
          ELSE pc' = "load" /\ UNCHANGED <<status, stderr>>
    /\ UNCHANGED <<tool, args, env, disk, disk0, data, cur, results, counter, run>>

\* with open(args.in_file) as f: content = json.load(f); results = []; counter = 0;
\* the iterable content["issues"]
ConverterLoad ==
    /\ tool = "sonar_to_sarif"
    /\ pc = "load"
    /\ LET f == disk[args.in_file]
       IN  IF f.kind = "absent"
              THEN Raise("FileNotFoundError") /\ UNCHANGED <<data, cur>>
           ELSE IF f.kind # "json"
              THEN Raise("JSONDecodeError") /\ UNCHANGED <<data, cur>>
           ELSE IF ~Has(f.value, "issues")
              THEN Raise("KeyError") /\ data' = f.value /\ UNCHANGED cur
           ELSE /\ data' = f.value
                /\ cur' = [cur EXCEPT !.issue = 1]
                /\ pc' = "for_issue"
                /\ UNCHANGED <<status, stderr>>
    /\ results' = <<>>
    /\ counter' = 0
    /\ UNCHANGED <<tool, args, env, disk, disk0, run>>

\* for issue in content["issues"]: the next issue and the loop body
ConverterForIssue ==
    /\ tool = "sonar_to_sarif"
    /\ pc = "for_issue"
    /\ IF cur.issue > Len(data.issues)
          THEN pc' = "scanner" /\ UNCHANGED <<cur, results, counter, status, stderr>>
       ELSE IF ~HasIssueKeys(data.issues[cur.issue])
          THEN Raise("KeyError") /\ UNCHANGED <<cur, results, counter>>
       ELSE /\ results' = Append(results, ToResult(data.issues[cur.issue], args.base, counter))
            /\ counter' = NextCounter(counter)
            /\ cur' = [cur EXCEPT !.issue = @ + 1]
            /\ UNCHANGED <<pc, status, stderr>>
    /\ UNCHANGED <<tool, args, env, disk, disk0, data, run>>

\* scanner_version = subprocess.run(["dub", ...]).stdout.strip().decode().split("\n")[-1]
\* and the `run` dictionary
ConverterScanner ==
    /\ tool = "sonar_to_sarif"
    /\ pc = "scanner"
    /\ IF ~env.dub.installed
          THEN Raise("FileNotFoundError") /\ UNCHANGED run
          ELSE LET scanner_version == LastLine(strip(env.dub.stdout))
               IN  /\ run' =
                        [tool |->
                            [driver |->
                                [name |-> "dscanner",
                                 version |-> scanner_version,
                                 semanticVersion |->
                                    SubSeq(scanner_version, 2, Len(scanner_version))]],
                         conversion |->
                            [tool |-> [driver |-> [name |-> "sonar2sarif.py"]],
                             invocation |->
                                [commandLine |-> <<"python3 ", env.argv>>,
                                 executionSuccessful |-> TRUE]],
                         results |-> results]
                   /\ pc' = "git"
                   /\ UNCHANGED <<status, stderr>>
    /\ UNCHANGED <<tool, args, env, disk, disk0, data, cur, results, counter>>

\* if args.git: run["versionControlProvenance"] = [version_info]
ConverterGit ==
    /\ tool = "sonar_to_sarif"
    /\ pc = "git"
    /\ IF Truthy(args.git)
          THEN LET version_info ==
                       [repositoryUri |-> args.git[1],
                        revisionId |-> strip(env.git.sha),
                        branch |-> strip(env.git.branch)]
               IN  run' = [k \in DOMAIN run \cup {"versionControlProvenance"} |->
                              IF k = "versionControlProvenance"
                                 THEN <<version_info>>
                                 ELSE run[k]]
          ELSE UNCHANGED run
    /\ pc' = "write"
    /\ UNCHANGED <<tool, args, env, disk, disk0, data, cur, results, counter, status, stderr>>

\* data = {...}; with open(args.out_file, "w") as f: json.dump(data, f, indent=2); return 0
ConverterWrite ==
    /\ tool = "sonar_to_sarif"
    /\ pc = "write"
    /\ data' = [k \in {"version", "runs", "$schema"} |->
                  IF k = "version" THEN Str("2.1.0")
                  ELSE IF k = "runs" THEN <<run>>
                  ELSE Str(SCHEMA_URL)]
    /\ disk' = [disk EXCEPT ![args.out_file] = Json(data')]
    /\ Return("0")
    /\ UNCHANGED <<tool, args, env, disk0, cur, results, counter, run, stderr>>

Init == RewriterInit \/ ConverterInit

Next ==
    \/ RewriterLoad
    \/ RewriterForRun
    \/ RewriterForResult
    \/ RewriterForLocation
    \/ RewriterWrite
    \/ ConverterCheck
    \/ ConverterLoad
    \/ ConverterForIssue
    \/ ConverterScanner
    \/ ConverterGit
    \/ ConverterWrite

Spec == Init /\ [][Next]_vars
(***************************************************************************)
(* Vocabulary of the properties.                                           *)
(***************************************************************************)
Rewriter == tool = "fix_clippy_sarif"
Converter == tool = "sonar_to_sarif"
Succeeded == pc = "done" /\ status = "0"

\* The input and the output document of fix_clippy_sarif.
SarifIn == disk0["clippy.sarif"].value
SarifOut == disk["clippy.sarif"].value

WellFormedSarif(doc) ==
    /\ Has(doc, "runs")
    /\ \A r \in 1..Len(doc.runs) :
        /\ Has(doc.runs[r], "results")
        /\ \A s \in 1..Len(doc.runs[r].results) :
            /\ Has(doc.runs[r].results[s], "locations")
            /\ \A l \in 1..Len(doc.runs[r].results[s].locations) :
                HasUri(doc.runs[r].results[s].locations[l])

\* The positions <<run, result, location>> of a well-formed document.
LocationIndex(doc) ==
    UNION {UNION {{<<r, s, l>> : l \in 1..Len(doc.runs[r].results[s].locations)} :
                    s \in 1..Len(doc.runs[r].results)} :
             r \in 1..Len(doc.runs)}

UriAt(doc, pos) ==
    doc.runs[pos[1]].results[pos[2]].locations[pos[3]].physicalLocation.artifactLocation.uri

\* The input and the output of sonar_to_sarif.
IssuesIn == disk0["issues.json"].value.issues
ResultsOut == disk["out.sarif"].value.runs[1].results
ResultUri(result) == result.locations[1].physicalLocation.artifactLocation.uri

\* Every rewritten path of a finished run, with the path it came from and the base used.
UriPairs ==
    IF ~Succeeded THEN {}
    ELSE IF Rewriter
        THEN {[orig |-> UriAt(SarifIn, pos), out |-> UriAt(SarifOut, pos), base |-> Some(args.base)] :
                pos \in LocationIndex(SarifIn)}
    ELSE {[orig |-> IssuesIn[k].primaryLocation.filePath, out |-> ResultUri(ResultsOut[k]),
           base |-> args.base] : k \in 1..Len(IssuesIn)}

HasDotSegment(path) == \E k \in 1..Len(Split(path)) : Split(path)[k] \in {dot, dotdot}
IsAbsolute(path) == StartsWith(path, <<sep>>)
StartsWithDotDot(path) == Split(path)[1] = dotdot

(***************************************************************************)
(* C1.  sonar_to_sarif: the output has one result per input issue, the     *)
(* k-th result built from the k-th issue, and the id of its single         *)
(* location is k (0-based): 0..N-1 in input order, no gaps, no repeats.    *)
(* While the loop runs, counter is the number of results appended.         *)
(***************************************************************************)
C1_OneResultPerIssue ==
    Converter =>
        /\ counter = Len(results)
        /\ \A k \in 1..Len(results) :
            /\ Len(results[k].locations) = 1
            /\ results[k].locations[1].id = k - 1
        /\ Succeeded =>
            /\ Len(ResultsOut) = Len(IssuesIn)
            /\ \A k \in 1..Len(IssuesIn) :
                /\ Len(ResultsOut[k].locations) = 1
                /\ ResultsOut[k].locations[1].id = k - 1
                /\ ResultsOut[k].ruleId = IssuesIn[k].ruleId
                /\ ResultsOut[k].message.text = IssuesIn[k].primaryLocation.message

C1_Witness ==
    /\ Converter
    /\ Succeeded
    /\ Len(IssuesIn) = MaxIssues
    /\ IssuesIn[1] # IssuesIn[2]
    /\ ResultsOut[MaxIssues].locations[1].id = MaxIssues - 1

(***************************************************************************)
(* C2.  sonar_to_sarif without --force and with the output path already    *)
(* existing: exit status 1 with the message on stderr, no file modified,   *)
(* and the input file is never read, whether it is valid, malformed or     *)
(* missing.                                                                *)
(***************************************************************************)
C2_RefusesToOverwrite ==
    (Converter /\ ~args.force /\ exists(disk0, args.out_file)) =>
        /\ disk = disk0
        /\ data = NoData
        /\ pc \in {"check", "done"}
        /\ pc = "done" =>
            /\ status = "1"
            /\ stderr = "Output file already exists. Use '-f' to overwrite it."

C2_Witness ==
    /\ Converter
    /\ ~args.force
    /\ disk0[args.out_file] = OldOutput
    /\ disk0[args.in_file].kind = "text"
    /\ pc = "done"
    /\ status = "1"
    /\ disk[args.out_file] = OldOutput

(***************************************************************************)
(* C3.  to_level is total: MINOR gives note and every other severity       *)
(* (MAJOR, CRITICAL, the empty string, null, ...) gives warning; error is  *)
(* never produced, and an issue that has all its keys is never the one     *)
(* the conversion fails on, whatever its severity.                         *)
(***************************************************************************)
C3_SeverityMappingTotal ==
    Converter =>
        /\ \A k \in 1..Len(results) :
            /\ results[k].level =
                  (IF IssuesIn[k].severity = Str("MINOR") THEN "note" ELSE "warning")
            /\ results[k].level # "error"
        /\ (pc = "done" /\ stderr = "KeyError" /\ Has(disk0[args.in_file].value, "issues")) =>
              ~HasIssueKeys(IssuesIn[cur.issue])
        /\ pc \in {"scanner", "git", "write"} => Len(results) = Len(IssuesIn)

C3_Witness ==
    /\ Converter
    /\ Succeeded
    /\ Len(IssuesIn) = 2
    /\ IssuesIn[1].severity = Null
    /\ IssuesIn[2].severity = Str("CRITICAL")
    /\ ResultsOut[1].level = "warning"
    /\ ResultsOut[2].level = "warning"
(***************************************************************************)
(* C4 as stated.  fix_clippy_sarif: every output URI equals                *)
(* normalize(join(base, normalize(original URI))), i.e. the joined path is *)
(* itself normalized.                                                      *)
(***************************************************************************)
C4_JoinedPathNormalized ==
    Rewriter =>
        \A pr \in UriPairs : pr.out = normpath(join(args.base, normpath(pr.orig)))

(***************************************************************************)
(* C4 as amended.  fix_clippy_sarif: every output URI equals               *)
(* join(base, normalize(original URI)); the joined path is not normalized  *)
(* again.                                                                  *)
(***************************************************************************)
C4_JoinOfNormalized ==
    Rewriter =>
        \A pr \in UriPairs : pr.out = join(args.base, normpath(pr.orig))

C4_Witness ==
    /\ Rewriter
    /\ Succeeded
    /\ \E pr \in UriPairs :
        /\ pr.orig # normpath(pr.orig)
        /\ pr.out # normpath(pr.out)

(***************************************************************************)
(* C5 as stated.  In the output of both tools no artifact URI has a `.` or *)
(* a `..` segment, for every input path and every base directory.          *)
(***************************************************************************)
C5_NoDotSegments ==
    \A pr \in UriPairs : ~HasDotSegment(pr.out)

(***************************************************************************)
(* C5 as amended.  In the output of both tools an artifact URI has no `.`  *)
(* and no `..` segment provided that the normalized input path neither is  *)
(* `.` nor starts with `..` and that the base directory, when one is       *)
(* given, has no `.` or `..` segment itself: only the input path is        *)
(* normalized, a leading `..` of a relative path is kept, and the base is  *)
(* copied as given.                                                        *)
(***************************************************************************)
C5_NoDotSegmentsFromCleanBase ==
    \A pr \in UriPairs :
        (/\ normpath(pr.orig) # dot
         /\ ~StartsWithDotDot(normpath(pr.orig))
         /\ IsGiven(pr.base) => ~HasDotSegment(pr.base[1]))
            => ~HasDotSegment(pr.out)

C5_Witness ==
    /\ Converter
    /\ Succeeded
    /\ \E pr \in UriPairs :
        /\ HasDotSegment(pr.orig)
        /\ normpath(pr.orig) # dot
        /\ ~StartsWithDotDot(normpath(pr.orig))
        /\ IsGiven(pr.base)
        /\ pr.base[1] # <<>>
        /\ ~HasDotSegment(pr.base[1])
        /\ ~HasDotSegment(pr.out)

(***************************************************************************)
(* C6 as stated.  fix_clippy_sarif rewrites `../a/b.d` under base `/x/y`   *)
(* to `/x/y/a/b.d`: a URI whose normalized form starts with `..` becomes   *)
(* the base followed by the remaining segments, the leading `..` removed.  *)
(***************************************************************************)
C6_LeadingDotDotRemoved ==
    Rewriter =>
        \A pr \in UriPairs :
            (pr.orig = <<".", ".", "/", "a", "/", "b", ".", "d">>
                /\ args.base = <<"/", "x", "/", "y">>)
            => pr.out = <<"/", "x", "/", "y", "/", "a", "/", "b", ".", "d">>

(***************************************************************************)
(* C6 as amended.  fix_clippy_sarif rewrites `../a/b.d` under base `/x/y`  *)
(* to `/x/y/../a/b.d`: a URI whose normalized form starts with `..` is     *)
(* rewritten to the base joined with that normalized form, so the leading  *)
(* `..` is kept as a segment of the output.                                *)
(***************************************************************************)
C6_LeadingDotDotKept ==
    Rewriter =>
        \A pr \in UriPairs :
            /\ (pr.orig = <<".", ".", "/", "a", "/", "b", ".", "d">>
                    /\ args.base = <<"/", "x", "/", "y">>)
               => pr.out = <<"/", "x", "/", "y", "/", ".", ".", "/", "a", "/", "b", ".", "d">>
            /\ StartsWithDotDot(normpath(pr.orig))
               => /\ \E k \in 1..Len(Split(pr.out)) : Split(pr.out)[k] = dotdot
                  /\ pr.out = (IF args.base = <<>> \/ EndsWith(args.base, sep)
                                  THEN args.base \o normpath(pr.orig)
                                  ELSE args.base \o <<sep>> \o normpath(pr.orig))

C6_Witness ==
    /\ Rewriter
    /\ Succeeded
    /\ args.base = <<"/", "x", "/", "y">>
    /\ \E pr \in UriPairs :
        /\ pr.orig = <<".", ".", "/", "a", "/", "b", ".", "d">>
        /\ pr.out = <<"/", "x", "/", "y", "/", ".", ".", "/", "a", "/", "b", ".", "d">>

(***************************************************************************)
(* C7.  sonar_to_sarif copies ruleId, message.text and region.startLine    *)
(* unchanged from the issue, and the URI is join(baseDir,                  *)
(* normalize(filePath)) when baseDir is given and normalize(filePath)      *)
(* otherwise; the example issue under base /repo gives level warning,      *)
(* text `bad thing`, uri /repo/src/foo.d, startLine 42 and, first in the   *)
(* list, id 0.                                                             *)
(***************************************************************************)
C7_ResultCopiesIssue ==
    (Converter /\ Succeeded) =>
        \A k \in 1..Len(IssuesIn) :
            LET issue == IssuesIn[k]
                result == ResultsOut[k]
                location == result.locations[1].physicalLocation
            IN  /\ result.ruleId = issue.ruleId
                /\ result.message.text = issue.primaryLocation.message
                /\ location.region.startLine = issue.primaryLocation.textRange.startLine
                /\ location.artifactLocation.uri =
                      (IF IsGiven(args.base)
                          THEN join(args.base[1], normpath(issue.primaryLocation.filePath))
                          ELSE normpath(issue.primaryLocation.filePath))
                /\ (issue = ExampleIssue /\ args.base = Some(ExampleBase)) =>
                      result =
                        [ruleId |-> "dscanner.bugs.logic",
                         level |-> "warning",
                         message |-> [text |-> "bad thing"],
                         locations |->
                            <<[id |-> k - 1,
                               physicalLocation |->
                                  [artifactLocation |->
                                      [uri |-> <<"/", "r", "e", "p", "o", "/", "s", "r", "c",
                                                 "/", "f", "o", "o", ".", "d">>],
                                   region |-> [startLine |-> 42]]]>>]

C7_Witness ==
    /\ Converter
    /\ Succeeded
    /\ IssuesIn = <<ExampleIssue>>
    /\ args.base = Some(ExampleBase)
    /\ ResultsOut[1].locations[1].id = 0
    /\ ResultUri(ResultsOut[1]) =
          <<"/", "r", "e", "p", "o", "/", "s", "r", "c", "/", "f", "o", "o", ".", "d">>
(***************************************************************************)
(* A document with every artifact URI blanked: what fix_clippy_sarif must  *)
(* leave alone.                                                            *)
(***************************************************************************)
BlankLocation(location) ==
    IF HasUri(location)
       THEN [location EXCEPT !.physicalLocation.artifactLocation.uri = <<>>]
       ELSE location
BlankResult(result) ==
    IF Has(result, "locations")
       THEN [result EXCEPT !.locations = [l \in 1..Len(@) |-> BlankLocation(@[l])]]
       ELSE result
BlankRun(run_) ==
    IF Has(run_, "results")
       THEN [run_ EXCEPT !.results = [s \in 1..Len(@) |-> BlankResult(@[s])]]
       ELSE run_
BlankUris(doc) ==
    IF Has(doc, "runs")
       THEN [doc EXCEPT !.runs = [r \in 1..Len(@) |-> BlankRun(@[r])]]
       ELSE doc

(***************************************************************************)
(* C8.  fix_clippy_sarif changes nothing but the artifact URIs: the        *)
(* output has the same runs, results and locations in the same order, and  *)
(* every other key of the document, of a run, of a result and of a         *)
(* location is as in the input; the same holds of the document in memory   *)
(* while the loop runs.                                                    *)
(***************************************************************************)
C8_OnlyUrisChange ==
    Rewriter =>
        /\ data # NoData => BlankUris(data) = BlankUris(SarifIn)
        /\ Succeeded =>
            /\ BlankUris(SarifOut) = BlankUris(SarifIn)
            /\ Len(SarifOut.runs) = Len(SarifIn.runs)
            /\ LocationIndex(SarifOut) = LocationIndex(SarifIn)

C8_Witness ==
    /\ Rewriter
    /\ Succeeded
    /\ Cardinality(LocationIndex(SarifIn)) >= 2
    /\ \A pos \in LocationIndex(SarifIn) : UriAt(SarifOut, pos) # UriAt(SarifIn, pos)
    /\ \E p1, p2 \in LocationIndex(SarifIn) : UriAt(SarifIn, p1) # UriAt(SarifIn, p2)

(***************************************************************************)
(* C9.  fix_clippy_sarif on a malformed document (no `runs`, a run without *)
(* `results`, a result without `locations`, a location without             *)
(* `physicalLocation.artifactLocation.uri`) never returns 0 and ends in an *)
(* uncaught KeyError, and the file on disk stays as it was: the file is    *)
(* written only at the end, after every location has been rewritten, so a  *)
(* failure at a later location leaves no partly rewritten file.            *)
(***************************************************************************)
C9_MalformedLeavesFileAlone ==
    Rewriter =>
        /\ disk # disk0 => (Succeeded /\ WellFormedSarif(SarifIn))
        /\ status = "running" => disk = disk0
        /\ (disk0["clippy.sarif"].kind = "json" /\ ~WellFormedSarif(SarifIn)) =>
            /\ status # "0"
            /\ disk = disk0
            /\ pc = "done" => (status = "1" /\ stderr = "KeyError")

C9_Witness ==
    /\ Rewriter
    /\ pc = "done"
    /\ status = "1"
    /\ stderr = "KeyError"
    /\ cur.location = 2
    /\ data # SarifIn
    /\ disk = disk0

(***************************************************************************)
(* C10 as stated.  When a base directory is supplied, every output URI of  *)
(* both tools starts with the base directory, for every input path, an     *)
(* input path whose normalized form is absolute included.                  *)
(***************************************************************************)
C10_BaseAlwaysPrefix ==
    \A pr \in UriPairs : IsGiven(pr.base) => StartsWith(pr.out, pr.base[1])

(***************************************************************************)
(* C10 as amended.  When a base directory is supplied, every output URI of *)
(* both tools starts with the base directory for every input path whose    *)
(* normalized form is relative; when the normalized form is absolute       *)
(* (starts with `/`) the join discards the base and the output URI is the  *)
(* normalized input path.                                                  *)
(***************************************************************************)
C10_BasePrefixOfRelative ==
    \A pr \in UriPairs :
        IsGiven(pr.base) =>
            IF IsAbsolute(normpath(pr.orig))
               THEN pr.out = normpath(pr.orig)
               ELSE StartsWith(pr.out, pr.base[1])

C10_Witness ==
    /\ Rewriter
    /\ Succeeded
    /\ \E pr \in UriPairs :
        /\ ~IsAbsolute(normpath(pr.orig))
        /\ pr.orig # normpath(pr.orig)
        /\ Len(pr.base[1]) = MaxBaseLen
        /\ StartsWith(pr.out, pr.base[1])
        /\ Len(pr.out) > Len(pr.base[1])
====
